---- MODULE Spec2Model ----
(***************************************************************************)
(* Model of the fungal-trove batch scripts:                                *)
(*   barrnap.py                  - the sample pipeline (main) and the      *)
(*                                 longest-18S selector                    *)
(*   fasttree_with_bootstraps.py - the bootstrap resampling function and   *)
(*                                 the replicate pipeline (main)           *)
(* External programs (barrnap, bedtools, FastTree) are the environment:    *)
(* each invocation ends "ok" (exit 0), "nonzero" (CalledProcessError) or   *)
(* "nolaunch" (the program cannot be started: FileNotFoundError).          *)
(***************************************************************************)
EXTENDS Integers, Sequences, FiniteSets, TLC

VARIABLES
    \* ---- barrnap.py main ----
    SAMPLE_IDS,     \* the configured work list
    input_files,    \* ids of the work list whose {id}_scaffolds.fasta exists in INPUT_DIR
    pc,             \* position of main
    idx,            \* 1-based position of the for loop in SAMPLE_IDS
    length,         \* local variable length of main
    rrna_fa,        \* records bedtools has written to the path rrna_fa in this iteration
    summary,        \* rows written to summary_18S_extraction.csv, header included
    row_item,       \* history: position in SAMPLE_IDS that wrote each data row
    trace,          \* history: stages executed, [item, stage, result]
    files,          \* artifact paths <<id, suffix>> created in OUTPUT_DIR
    \* ---- barrnap.py extract_longest_18s called on its own ----
    sel_in,         \* records parsed from rrna_fasta
    sel_pc,
    sel_best,       \* position of longest_record in sel_in, 0 for None
    sel_ret,        \* returned length
    sel_out,        \* output_fasta: [exists, records]
    \* ---- fasttree_with_bootstraps.py main ----
    INPUT_FASTA,    \* the source file: [exists, records]
    NUM_REPLICATES,
    rep_pc,
    rep_i,          \* loop variable i
    alignment,      \* the loaded source alignment (rows [id, seq])
    indices,        \* the index draw of the current generate call
    bs_align,       \* the replicate returned by the current generate call
    rep_files,      \* files <<i, ext>> created in OUTPUT_DIR
    rep_trace,      \* history: [i, op, result]
    \* ---- barrnap.py main run a second time over the same OUTPUT_DIR ----
    run,            \* 1 in the first run of main, 2 in the second
    first_run,      \* history: [summary, files, trace] at the end of the first run
    script,         \* history: the records bedtools wrote in the first run, in order
    \* ---- resnet50.py main ----
    image_dir,      \* names of the files in INPUT_IMAGE_DIR
    emb_pc,
    image_files,    \* the list image_files
    emb_i,          \* 1-based position of the for loop in image_files
    attempts,       \* history: calls of extract_and_save_embedding, [img, outcome]
    pt_files,       \* stems whose {stem}.pt torch.save has written
    warnings        \* images logged as "Failed to process"

pipeVars == <<SAMPLE_IDS, input_files, pc, idx, length, rrna_fa, summary,
              row_item, trace, files>>
selVars  == <<sel_in, sel_pc, sel_best, sel_ret, sel_out>>
repVars  == <<INPUT_FASTA, NUM_REPLICATES, rep_pc, rep_i, alignment, indices,
              bs_align, rep_files, rep_trace>>
rerunVars == <<run, first_run, script>>
embVars  == <<image_dir, emb_pc, image_files, emb_i, attempts, pt_files, warnings>>
vars == <<pipeVars, selVars, repVars, rerunVars, embVars>>

----------------------------------------------------------------------------
(* Bounds of the model *)
MaxItems == 2          \* longest work list
MaxPipeRecords == 2    \* most records bedtools writes for one sample in the pipeline
MaxRecords == 3        \* most records handed to the selector on its own
MaxSeqLen == 2         \* longest residue sequence of a record
MaxRows == 2           \* most rows of the source alignment file
MaxCols == 2           \* most columns of a row of the source alignment file
MaxReplicates == 2     \* largest NUM_REPLICATES
MaxRerunItems == 1     \* most samples when main of barrnap.py is run twice
MaxRerunRecords == 1   \* most records bedtools writes per sample in such a run
MaxImages == 2         \* most files in INPUT_IMAGE_DIR

RECURSIVE SeqsUpTo(_, _)
SeqsUpTo(S, n) ==
    IF n = 0 THEN {<<>>}
    ELSE LET shorter == SeqsUpTo(S, n - 1)
         IN  shorter \cup {Append(s, x) : s \in {t \in shorter : Len(t) = n - 1}, x \in S}

IDs == {"S1", "S2"}
ToolResults == {"ok", "nonzero", "nolaunch"}

(* A description is the FASTA title line, a string of characters. *)
Descriptions == { <<"1", "8", "S">>, <<"1", "8", "s">>, <<"r", "1", "8", "S">> }
RecordSeqs == SeqsUpTo({"A"}, MaxSeqLen)
Records == [description : Descriptions, seq : RecordSeqs]

NoFile == [exists |-> FALSE, records |-> <<>>]
FileOf(recs) == [exists |-> TRUE, records |-> recs]

----------------------------------------------------------------------------
(* barrnap.py: extract_longest_18s *)

(* Variant of Contains that ignores the case of the letter S *)
Fold(c) == IF c = "S" THEN "s" ELSE c
ContainsAnyCase(sub, s) ==
    \E i \in 0..(Len(s) - Len(sub)) :
        \A j \in 1..Len(sub) : Fold(s[i + j]) = Fold(sub[j])

(* sub in s, for Python strings *)
Contains(sub, s) ==
    \E i \in 0..(Len(s) - Len(sub)) : SubSeq(s, i + 1, i + Len(sub)) = sub

Label18S == <<"1", "8", "S">>

(* Variant of longest_record that replaces the running best on greater-or-   *)
(* equal length                                                              *)
RECURSIVE longest_record_ge(_, _, _)
longest_record_ge(records, i, longest) ==
    IF i > Len(records) THEN longest
    ELSE IF ~Contains(Label18S, records[i].description)
         THEN longest_record_ge(records, i + 1, longest)
         ELSE IF longest = 0 \/ Len(records[i].seq) >= Len(records[longest].seq)
              THEN longest_record_ge(records, i + 1, i)
              ELSE longest_record_ge(records, i + 1, longest)

(* The for loop of extract_longest_18s from record i on; longest is the       *)
(* position of longest_record (0 is None). A SeqRecord is always true, so     *)
(* "not longest_record" holds only for None.                                  *)
RECURSIVE longest_record(_, _, _)
longest_record(records, i, longest) ==
    IF i > Len(records) THEN longest
    ELSE IF ~Contains(Label18S, records[i].description)
         THEN longest_record(records, i + 1, longest)
         ELSE IF longest = 0 \/ Len(records[i].seq) > Len(records[longest].seq)
              THEN longest_record(records, i + 1, i)
              ELSE longest_record(records, i + 1, longest)

(* The value extract_longest_18s returns *)
extract_longest_18s(records) ==
    LET best == longest_record(records, 1, 0)
    IN  IF best # 0 THEN Len(records[best].seq) ELSE 0

(* Variant of write_longest_18s that writes an empty file when no record    *)
(* was selected                                                              *)
write_longest_18s_always(records, output_fasta) ==
    LET best == longest_record(records, 1, 0)
    IN  IF best # 0 THEN FileOf(<<records[best]>>) ELSE FileOf(<<>>)

(* The output_fasta after the call: written only when a record was selected *)
write_longest_18s(records, output_fasta) ==
    LET best == longest_record(records, 1, 0)
    IN  IF best # 0 THEN FileOf(<<records[best]>>) ELSE output_fasta

----------------------------------------------------------------------------
(* barrnap.py: main *)

HeaderRow == <<"SampleID", "Longest18S_Length">>

sample_id == SAMPLE_IDS[idx]

Event(item, stage, result) == [item |-> item, stage |-> stage, result |-> result]

(* Variant of Start that opens the summary file for appending *)
StartAppend ==
    /\ pc = "start"
    /\ \E ok \in BOOLEAN :
          IF ok
          THEN /\ summary' = summary \o <<HeaderRow>>
               /\ pc' = "for"
          ELSE /\ pc' = "aborted"
               /\ UNCHANGED summary
    /\ UNCHANGED <<SAMPLE_IDS, input_files, idx, length, rrna_fa, row_item, trace, files>>

(* OUTPUT_DIR.mkdir, summary_csv.open("w") and the header row. Either of the  *)
(* first two may raise OSError, which nothing catches.                        *)
Start ==
    /\ pc = "start"
    /\ \E ok \in BOOLEAN :
          IF ok
          THEN /\ summary' = <<HeaderRow>>
               /\ pc' = "for"
          ELSE /\ pc' = "aborted"
               /\ UNCHANGED summary
    /\ UNCHANGED <<SAMPLE_IDS, input_files, idx, length, rrna_fa, row_item, trace, files>>

(* The for statement has run out of samples: the with block closes the file. *)
Finish ==
    /\ pc = "for"
    /\ idx > Len(SAMPLE_IDS)
    /\ pc' = "done"
    /\ UNCHANGED <<SAMPLE_IDS, input_files, idx, length, rrna_fa, summary, row_item, trace, files>>

(* Lines 110-118: the next sample is taken and its input file looked up; an  *)
(* absent file is logged and the loop continues with the next sample;         *)
(* otherwise the four output paths are bound to this sample's names, and      *)
(* nothing has been written to them in this iteration yet.                    *)
InputCheck ==
    /\ pc = "for"
    /\ idx <= Len(SAMPLE_IDS)
    /\ IF sample_id \in input_files
       THEN /\ trace' = Append(trace, Event(idx, "INPUT_CHECK", "present"))
            /\ pc' = "PREDICT"
            /\ rrna_fa' = <<>>
            /\ UNCHANGED idx
       ELSE /\ trace' = Append(trace, Event(idx, "INPUT_CHECK", "absent"))
            /\ idx' = idx + 1
            /\ UNCHANGED <<pc, rrna_fa>>
    /\ UNCHANGED <<SAMPLE_IDS, input_files, length, summary, row_item, files>>

(* Variant of Predict without the except clause: a non-zero exit leaves main *)
PredictNoCatch ==
    /\ pc = "PREDICT"
    /\ \E r \in ToolResults :
          /\ trace' = Append(trace, Event(idx, "PREDICT", r))
          /\ files' = files \cup {<<sample_id, "rrna.gff">>, <<sample_id, "barrnap.log">>}
          /\ CASE r = "ok"       -> pc' = "EXTRACT" /\ UNCHANGED length
               [] r = "nonzero"  -> pc' = "aborted" /\ UNCHANGED length
               [] r = "nolaunch" -> pc' = "aborted" /\ UNCHANGED length
    /\ UNCHANGED <<SAMPLE_IDS, input_files, idx, rrna_fa, summary, row_item>>

(* run_barrnap inside the try: the gff and the log are opened for writing    *)
(* before barrnap is started; CalledProcessError is caught (length = 0), any  *)
(* other exception leaves main.                                               *)
Predict ==
    /\ pc = "PREDICT"
    /\ \E r \in ToolResults :
          /\ trace' = Append(trace, Event(idx, "PREDICT", r))
          /\ files' = files \cup {<<sample_id, "rrna.gff">>, <<sample_id, "barrnap.log">>}
          /\ CASE r = "ok"       -> pc' = "EXTRACT" /\ UNCHANGED length
               [] r = "nonzero"  -> pc' = "WRITE" /\ length' = 0
               [] r = "nolaunch" -> pc' = "aborted" /\ UNCHANGED length
    /\ UNCHANGED <<SAMPLE_IDS, input_files, idx, rrna_fa, summary, row_item>>

(* Variant of Extract that runs bedtools a second time after a non-zero exit *)
ExtractRetry ==
    /\ pc = "EXTRACT"
    /\ \E r \in ToolResults :
          /\ trace' = Append(trace, Event(idx, "EXTRACT", r))
          /\ CASE r = "ok" ->
                    /\ \E recs \in SeqsUpTo(Records, MaxPipeRecords) : rrna_fa' = recs
                    /\ files' = files \cup {<<sample_id, "rrna.fasta">>}
                    /\ pc' = "SELECT"
                    /\ UNCHANGED length
               [] r = "nonzero" ->
                    /\ IF trace # <<>> /\ trace[Len(trace)].stage = "EXTRACT"
                       THEN pc' = "WRITE" /\ length' = 0
                       ELSE pc' = "EXTRACT" /\ UNCHANGED length
                    /\ UNCHANGED <<rrna_fa, files>>
               [] r = "nolaunch" ->
                    /\ pc' = "aborted"
                    /\ UNCHANGED <<length, rrna_fa, files>>
    /\ UNCHANGED <<SAMPLE_IDS, input_files, idx, summary, row_item>>

(* extract_rrna_regions inside the try: bedtools writes {id}_rrna.fasta      *)
(* itself when it succeeds.                                                   *)
Extract ==
    /\ pc = "EXTRACT"
    /\ \E r \in ToolResults :
          /\ trace' = Append(trace, Event(idx, "EXTRACT", r))
          /\ CASE r = "ok" ->
                    /\ \E recs \in SeqsUpTo(Records, MaxPipeRecords) : rrna_fa' = recs
                    /\ files' = files \cup {<<sample_id, "rrna.fasta">>}
                    /\ pc' = "SELECT"
                    /\ UNCHANGED length
               [] r = "nonzero" ->
                    /\ pc' = "WRITE"
                    /\ length' = 0
                    /\ UNCHANGED <<rrna_fa, files>>
               [] r = "nolaunch" ->
                    /\ pc' = "aborted"
                    /\ UNCHANGED <<length, rrna_fa, files>>
    /\ UNCHANGED <<SAMPLE_IDS, input_files, idx, summary, row_item>>

(* length = extract_longest_18s(rrna_fa, fa18_out) *)
Select ==
    /\ pc = "SELECT"
    /\ length' = extract_longest_18s(rrna_fa)
    /\ files' = IF longest_record(rrna_fa, 1, 0) # 0
                THEN files \cup {<<sample_id, "18S.fasta">>}
                ELSE files
    /\ trace' = Append(trace, Event(idx, "SELECT",
                       IF longest_record(rrna_fa, 1, 0) # 0 THEN "found" ELSE "none"))
    /\ pc' = "WRITE"
    /\ UNCHANGED <<SAMPLE_IDS, input_files, idx, rrna_fa, summary, row_item>>

(* Variant of WriteRow that writes the header with every data row *)
WriteRowWithHeader ==
    /\ pc = "WRITE"
    /\ summary' = summary \o <<HeaderRow, <<sample_id, length>>>>
    /\ row_item' = Append(row_item, idx)
    /\ idx' = idx + 1
    /\ pc' = "for"
    /\ UNCHANGED <<SAMPLE_IDS, input_files, length, rrna_fa, trace, files>>

(* writer.writerow([sample_id, length]) and the step to the next sample *)
WriteRow ==
    /\ pc = "WRITE"
    /\ summary' = Append(summary, <<sample_id, length>>)
    /\ row_item' = Append(row_item, idx)
    /\ idx' = idx + 1
    /\ pc' = "for"
    /\ UNCHANGED <<SAMPLE_IDS, input_files, length, rrna_fa, trace, files>>

PipeInit ==
    /\ SAMPLE_IDS \in SeqsUpTo(IDs, MaxItems)
    /\ input_files \in SUBSET {SAMPLE_IDS[k] : k \in 1..Len(SAMPLE_IDS)}
    /\ pc = "start"
    /\ idx = 1
    /\ length = 0
    /\ rrna_fa = <<>>
    /\ summary = <<>>
    /\ row_item = <<>>
    /\ trace = <<>>
    /\ files = {}

(* The pipeline not running (the other programs are being checked) *)
PipeIdle ==
    /\ SAMPLE_IDS = <<>>
    /\ input_files = {}
    /\ pc = "idle"
    /\ idx = 1
    /\ length = 0
    /\ rrna_fa = <<>>
    /\ summary = <<>>
    /\ row_item = <<>>
    /\ trace = <<>>
    /\ files = {}

----------------------------------------------------------------------------
(* extract_longest_18s called on its own, on any parsed record list and any  *)
(* earlier state of the output file                                          *)

StaleRecord == [description |-> <<"1", "8", "S">>, seq |-> <<>>]

SelInit ==
    /\ sel_in \in SeqsUpTo(Records, MaxRecords)
    /\ sel_pc = "call"
    /\ sel_best = 0
    /\ sel_ret = 0
    /\ sel_out \in {NoFile, FileOf(<<StaleRecord>>)}

SelIdle ==
    /\ sel_in = <<>>
    /\ sel_pc = "idle"
    /\ sel_best = 0
    /\ sel_ret = 0
    /\ sel_out = NoFile

SelCall ==
    /\ sel_pc = "call"
    /\ sel_best' = longest_record(sel_in, 1, 0)
    /\ sel_ret' = extract_longest_18s(sel_in)
    /\ sel_out' = write_longest_18s(sel_in, sel_out)
    /\ sel_pc' = "returned"
    /\ UNCHANGED sel_in

----------------------------------------------------------------------------
(* fasttree_with_bootstraps.py: generate_bootstrap_alignment *)

RowNames == <<"A", "B", "C", "D">>
AlignSeqs == SeqsUpTo({"A", "C"}, MaxCols)

(* FASTA files of up to MaxRows records; rows may differ in length *)
FastaFiles ==
    UNION { { [k \in 1..n |-> [id |-> RowNames[k], seq |-> f[k]]] : f \in [1..n -> AlignSeqs] }
            : n \in 0..MaxRows }

(* The alignment of the end-to-end example: A = ACGT, B = TGCA *)
ExampleAlignment ==
    << [id |-> "A", seq |-> <<"A", "C", "G", "T">>],
       [id |-> "B", seq |-> <<"T", "G", "C", "A">>] >>
ExampleDraw == <<3, 0, 0, 2>>

(* MultipleSeqAlignment.get_alignment_length: the longest row, 0 if no rows *)
get_alignment_length(msa) ==
    IF Len(msa) = 0 THEN 0
    ELSE CHOOSE m \in {Len(msa[k].seq) : k \in 1..Len(msa)} :
            \A k \in 1..Len(msa) : Len(msa[k].seq) <= m

(* MultipleSeqAlignment.append raises ValueError when the alignment already  *)
(* has rows and the new record's length differs from the alignment's length. *)
append_raises(msa, rec) ==
    Len(msa) > 0 /\ Len(rec.seq) # get_alignment_length(msa)

(* Variant of Draws whose upper end is num_cols *)
DrawsUpToCols(num_cols) == [1..num_cols -> 0..num_cols]

(* Draws of random.randint(0, num_cols - 1), one per column *)
Draws(num_cols) == [1..num_cols -> 0..(num_cols - 1)]

(* "".join(rec.seq[i] for i in indices); Python indices are 0-based *)
resample(seq, draw) == [p \in 1..Len(draw) |-> seq[draw[p] + 1]]

(* rec.seq[i] raises IndexError for an index beyond the row *)
lookup_raises(seq, draw) == \E p \in 1..Len(draw) : draw[p] + 1 > Len(seq)

(* SeqRecord objects live in a heap, a sequence of objects [id, seq, cls]; a *)
(* reference is a position in it, and cls is the class of the object's seq    *)
(* attribute. The rows of the source alignment, read by AlignIO with Seq      *)
(* sequences, are the objects 1..Len(align).                                  *)
heap_of(align) ==
    [k \in 1..Len(align) |-> [id |-> align[k].id, seq |-> align[k].seq, cls |-> "Seq"]]

(* The objects a list of references stands for *)
deref(heap, refs) == [k \in 1..Len(refs) |-> heap[refs[k]]]

(* rec[:n]: SeqRecord.__getitem__ with a slice builds a new SeqRecord from   *)
(* the slice of the sequence; the record sliced is left as it is              *)
slice_record(heap, ref, n) ==
    [heap |-> Append(heap, [id |-> heap[ref].id,
                            seq |-> SubSeq(heap[ref].seq, 1, n),
                            cls |-> heap[ref].cls]),
     ref |-> Len(heap) + 1]

(* Variant of copy_record in which new_rec is the row itself, not a copy *)
copy_record_alias(heap, ref) == [heap |-> heap, ref |-> ref]

(* new_rec = rec[:]: the slice over the whole sequence, a new object *)
copy_record(heap, ref) == slice_record(heap, ref, Len(heap[ref].seq))

(* new_rec.seq = seq: the attribute of the object new_rec refers to is set   *)
(* to the joined str                                                          *)
set_seq(heap, ref, seq) ==
    [heap EXCEPT ![ref] = [id |-> @.id, seq |-> seq, cls |-> "str"]]

(* [rec[:0] for rec in alignment]: one new empty-sequence object per source  *)
(* row, appended to the heap in row order                                     *)
RECURSIVE empty_rows(_, _, _)
empty_rows(heap, n, k) ==
    IF k > n THEN heap
    ELSE empty_rows(slice_record(heap, k, 0).heap, n, k + 1)

(* The for loop of generate_bootstrap_alignment from source row k on;        *)
(* bootstrap holds the references of the rows of the new alignment            *)
RECURSIVE bootstrap_loop(_, _, _, _, _)
bootstrap_loop(heap, n, draw, k, bootstrap) ==
    IF k > n THEN [raised |-> FALSE, heap |-> heap, rows |-> bootstrap]
    ELSE IF lookup_raises(heap[k].seq, draw)
         THEN [raised |-> TRUE, heap |-> heap, rows |-> <<>>]
         ELSE LET seq == resample(heap[k].seq, draw)
                  new_rec == copy_record(heap, k)
                  assigned == set_seq(new_rec.heap, new_rec.ref, seq)
              IN  IF append_raises(deref(assigned, bootstrap), assigned[new_rec.ref])
                  THEN [raised |-> TRUE, heap |-> assigned, rows |-> <<>>]
                  ELSE bootstrap_loop(assigned, n, draw, k + 1,
                                      Append(bootstrap, new_rec.ref))

(* The heap and the rows of the new alignment at the end of                  *)
(* generate_bootstrap_alignment for the index draw made; raised when the call *)
(* ends in an exception                                                       *)
generate_on_heap(align, draw) ==
    bootstrap_loop(empty_rows(heap_of(align), Len(align), 1), Len(align), draw, 1,
                   [k \in 1..Len(align) |-> Len(align) + k])

(* The source alignment after the call: its rows are still the objects       *)
(* 1..Len(align), read back from the heap the call leaves                     *)
source_after_generate(align, draw) ==
    LET heap == generate_on_heap(align, draw).heap
    IN  [k \in 1..Len(align) |-> [id |-> heap[k].id, seq |-> heap[k].seq]]

(* generate_bootstrap_alignment for the index draw made: the returned rows,  *)
(* or raised when the call ends in an exception                               *)
generate_bootstrap_alignment(align, draw) ==
    LET res == generate_on_heap(align, draw)
    IN  [raised |-> res.raised, rows |-> deref(res.heap, res.rows)]

----------------------------------------------------------------------------
(* fasttree_with_bootstraps.py: main *)

RepEvent(i, op, result) == [i |-> i, op |-> op, result |-> result]

(* AlignIO.read raises ValueError for a file without records or with rows of *)
(* differing length                                                          *)
read_raises(recs) ==
    \/ Len(recs) = 0
    \/ \E j, k \in 1..Len(recs) : Len(recs[j].seq) # Len(recs[k].seq)

(* OUTPUT_DIR.mkdir(parents=True, exist_ok=True) *)
RepStart ==
    /\ rep_pc = "start"
    /\ \E ok \in BOOLEAN : rep_pc' = IF ok THEN "check" ELSE "aborted"
    /\ UNCHANGED <<INPUT_FASTA, NUM_REPLICATES, rep_i, alignment, indices, bs_align,
                   rep_files, rep_trace>>

(* Variant of RepRead that goes on to the replicates with no alignment when *)
(* the source alignment is absent or unreadable                              *)
RepReadGoOn ==
    /\ rep_pc = "check"
    /\ rep_pc' = "for"
    /\ alignment' = IF ~INPUT_FASTA.exists \/ read_raises(INPUT_FASTA.records)
                    THEN <<>>
                    ELSE INPUT_FASTA.records
    /\ UNCHANGED <<INPUT_FASTA, NUM_REPLICATES, rep_i, indices, bs_align, rep_files, rep_trace>>

(* if not INPUT_FASTA.exists(): log and return; else AlignIO.read *)
RepRead ==
    /\ rep_pc = "check"
    /\ IF ~INPUT_FASTA.exists
       THEN rep_pc' = "returned" /\ UNCHANGED alignment
       ELSE IF read_raises(INPUT_FASTA.records)
            THEN rep_pc' = "aborted" /\ UNCHANGED alignment
            ELSE rep_pc' = "for" /\ alignment' = INPUT_FASTA.records
    /\ UNCHANGED <<INPUT_FASTA, NUM_REPLICATES, rep_i, indices, bs_align, rep_files, rep_trace>>

(* range(1, NUM_REPLICATES + 1) is exhausted *)
RepFinish ==
    /\ rep_pc = "for"
    /\ rep_i > NUM_REPLICATES
    /\ rep_pc' = "done"
    /\ UNCHANGED <<INPUT_FASTA, NUM_REPLICATES, rep_i, alignment, indices, bs_align,
                   rep_files, rep_trace>>

(* bs_align = generate_bootstrap_alignment(alignment), outside any try *)
RepGenerate ==
    /\ rep_pc = "for"
    /\ rep_i <= NUM_REPLICATES
    /\ \E draw \in Draws(get_alignment_length(alignment)) :
          LET res == generate_bootstrap_alignment(alignment, draw)
          IN  /\ indices' = draw
              /\ IF res.raised
                 THEN /\ rep_trace' = Append(rep_trace, RepEvent(rep_i, "generate", "ValueError"))
                      /\ rep_pc' = "aborted"
                      /\ UNCHANGED bs_align
                 ELSE /\ rep_trace' = Append(rep_trace, RepEvent(rep_i, "generate", "ok"))
                      /\ rep_pc' = "persist"
                      /\ bs_align' = res.rows
              /\ alignment' = source_after_generate(alignment, draw)
    /\ UNCHANGED <<INPUT_FASTA, NUM_REPLICATES, rep_i, rep_files>>

(* SeqIO.write in "fasta" format raises TypeError("... has an invalid       *)
(* sequence.") at the first record whose seq is not a Seq                     *)
write_raises(rows) == \E k \in 1..Len(rows) : rows[k].cls # "Seq"

(* SeqIO.write(bs_align, replicate_i.fasta, "fasta"), outside any try: it   *)
(* opens the file and writes record by record, so a TypeError leaves main     *)
(* with the file created.                                                     *)
RepPersist ==
    /\ rep_pc = "persist"
    /\ rep_files' = rep_files \cup {<<rep_i, "fasta">>}
    /\ IF write_raises(bs_align)
       THEN /\ rep_trace' = Append(rep_trace, RepEvent(rep_i, "persist", "TypeError"))
            /\ rep_pc' = "aborted"
       ELSE /\ rep_trace' = Append(rep_trace, RepEvent(rep_i, "persist", "ok"))
            /\ rep_pc' = "fasttree"
    /\ UNCHANGED <<INPUT_FASTA, NUM_REPLICATES, rep_i, alignment, indices, bs_align>>

(* run_fasttree(replicate_i.fasta, replicate_i.nwk) until FastTree has ended *)
(* as r: the nwk file is opened for writing before FastTree is started        *)
run_fasttree(i, r) ==
    /\ rep_files' = rep_files \cup {<<i, "nwk">>}
    /\ rep_trace' = Append(rep_trace, RepEvent(i, "fasttree", r))

(* The positions of a caller other than main that calls run_fasttree: before *)
(* the call, after its return, after its exception                            *)
CallPcs == {"run_fasttree", "run_fasttree_returned", "run_fasttree_raised"}

(* run_fasttree called by main inside the try, where only                    *)
(* CalledProcessError is caught and the loop goes on, or called on its own,   *)
(* where it returns or raises to its caller                                   *)
RepFastTree ==
    /\ rep_pc \in {"fasttree", "run_fasttree"}
    /\ \E r \in ToolResults :
          /\ run_fasttree(rep_i, r)
          /\ IF rep_pc = "fasttree"
             THEN IF r = "nolaunch"
                  THEN rep_pc' = "aborted" /\ UNCHANGED rep_i
                  ELSE rep_pc' = "for" /\ rep_i' = rep_i + 1
             ELSE /\ rep_pc' = IF r = "ok" THEN "run_fasttree_returned"
                                           ELSE "run_fasttree_raised"
                  /\ UNCHANGED rep_i
    /\ UNCHANGED <<INPUT_FASTA, NUM_REPLICATES, alignment, indices, bs_align>>

(* The start of main, or of a call of run_fasttree on its own for the paths  *)
(* of replicate rep_i, whose fasta file is there or not                       *)
RepInit ==
    /\ \/ /\ INPUT_FASTA \in {NoFile} \cup {FileOf(recs) : recs \in FastaFiles \cup {ExampleAlignment}}
          /\ NUM_REPLICATES \in 0..MaxReplicates
          /\ rep_pc = "start"
          /\ rep_i = 1
          /\ rep_files = {}
       \/ /\ INPUT_FASTA = NoFile
          /\ NUM_REPLICATES = 0
          /\ rep_pc = "run_fasttree"
          /\ rep_i \in 1..MaxReplicates
          /\ rep_files \in {{}, {<<rep_i, "fasta">>}}
    /\ alignment = <<>>
    /\ indices = <<>>
    /\ bs_align = <<>>
    /\ rep_trace = <<>>

(* A caller other than main that has read INPUT_FASTA with AlignIO.read and  *)
(* calls generate_bootstrap_alignment on the alignment NUM_REPLICATES times   *)
GenCallInit ==
    /\ INPUT_FASTA \in {FileOf(recs) : recs \in {f \in FastaFiles : ~read_raises(f)}}
    /\ NUM_REPLICATES \in 1..MaxReplicates
    /\ rep_pc = "generate_bootstrap_alignment"
    /\ rep_i = 1
    /\ alignment = INPUT_FASTA.records
    /\ indices = <<>>
    /\ bs_align = <<>>
    /\ rep_files = {}
    /\ rep_trace = <<>>

(* One more call generate_bootstrap_alignment(alignment) by that caller, who *)
(* goes on to the next call whether this one returned or raised               *)
GenerateCall ==
    /\ rep_pc = "generate_bootstrap_alignment"
    /\ rep_i <= NUM_REPLICATES
    /\ \E draw \in Draws(get_alignment_length(alignment)) :
          LET res == generate_bootstrap_alignment(alignment, draw)
          IN  /\ indices' = draw
              /\ IF res.raised
                 THEN /\ rep_trace' = Append(rep_trace, RepEvent(rep_i, "generate", "ValueError"))
                      /\ UNCHANGED bs_align
                 ELSE /\ rep_trace' = Append(rep_trace, RepEvent(rep_i, "generate", "ok"))
                      /\ bs_align' = res.rows
              /\ alignment' = source_after_generate(alignment, draw)
    /\ rep_i' = rep_i + 1
    /\ UNCHANGED <<INPUT_FASTA, NUM_REPLICATES, rep_pc, rep_files>>

RepIdle ==
    /\ INPUT_FASTA = NoFile
    /\ NUM_REPLICATES = 0
    /\ rep_pc = "idle"
    /\ rep_i = 1
    /\ alignment = <<>>
    /\ indices = <<>>
    /\ bs_align = <<>>
    /\ rep_files = {}
    /\ rep_trace = <<>>

----------------------------------------------------------------------------
(* resnet50.py *)

(* File names are strings of character codes: a, b, a- with .jpg or .png *)
JpgExt == <<46, 106, 112, 103>>
PngExt == <<46, 112, 110, 103>>
Stems == { <<97>>, <<98>>, <<97, 45>> }
DirNames == {st \o ext : st \in Stems, ext \in {JpgExt, PngExt}}

(* Path.glob("*.jpg"): the names that end in .jpg *)
glob_jpg(dir) ==
    {f \in dir : Len(f) >= Len(JpgExt) /\ SubSeq(f, Len(f) - Len(JpgExt) + 1, Len(f)) = JpgExt}

(* Path.stem: the name without its last suffix *)
stem(f) == SubSeq(f, 1, Len(f) - Len(JpgExt))

(* The order of paths of one directory: the order of their names as strings *)
path_lt(a, b) ==
    \E k \in 1..(Len(a) + 1) :
        /\ \A j \in 1..(k - 1) : j <= Len(b) /\ a[j] = b[j]
        /\ \/ k = Len(a) + 1 /\ Len(b) >= k
           \/ k <= Len(a) /\ k <= Len(b) /\ a[k] < b[k]

(* sorted(...): the least path first *)
RECURSIVE sorted(_)
sorted(S) ==
    IF S = {} THEN <<>>
    ELSE LET least == CHOOSE x \in S : \A y \in S \ {x} : path_lt(x, y)
         IN  <<least>> \o sorted(S \ {least})

(* How a call of extract_and_save_embedding ends: it returns after           *)
(* torch.save ("ok"), cv2.imread gives None and RuntimeError is raised        *)
(* ("unreadable"), one of cvtColor, transform and model raises before         *)
(* torch.save is called ("error"), or torch.save raises ("save_error")        *)
EmbOutcomes == {"ok", "unreadable", "error", "save_error"}

(* The .pt files after torch.save(embedding, out_path) has raised: it raises *)
(* when it cannot open out_path, which creates nothing, or while it writes    *)
(* into the file it has opened, which leaves the file; nothing removes it     *)
after_failed_save(pts, name) == {pts, pts \cup {name}}

(* OUTPUT_TENSOR_DIR.mkdir, load_feature_extractor, get_transform_pipeline:  *)
(* an exception of any of them leaves main                                    *)
EmbStart ==
    /\ emb_pc = "start"
    /\ \E ok \in BOOLEAN : emb_pc' = IF ok THEN "glob" ELSE "aborted"
    /\ UNCHANGED <<image_dir, image_files, emb_i, attempts, pt_files, warnings>>

(* image_files = sorted(INPUT_IMAGE_DIR.glob("*.jpg")); return if empty *)
EmbGlob ==
    /\ emb_pc = "glob"
    /\ image_files' = sorted(glob_jpg(image_dir))
    /\ emb_pc' = IF glob_jpg(image_dir) = {} THEN "returned" ELSE "for"
    /\ UNCHANGED <<image_dir, emb_i, attempts, pt_files, warnings>>

(* One iteration of the for loop: extract_and_save_embedding in the try,     *)
(* except Exception logs the warning                                          *)
EmbExtract ==
    /\ emb_pc = "for"
    /\ emb_i <= Len(image_files)
    /\ \E o \in EmbOutcomes :
          /\ attempts' = Append(attempts, [img |-> image_files[emb_i], outcome |-> o])
          /\ CASE o = "ok" ->
                    /\ pt_files' = pt_files \cup {stem(image_files[emb_i])}
                    /\ UNCHANGED warnings
               [] o \in {"unreadable", "error"} ->
                    /\ warnings' = Append(warnings, image_files[emb_i])
                    /\ UNCHANGED pt_files
               [] o = "save_error" ->
                    /\ warnings' = Append(warnings, image_files[emb_i])
                    /\ pt_files' \in after_failed_save(pt_files, stem(image_files[emb_i]))
    /\ emb_i' = emb_i + 1
    /\ UNCHANGED <<image_dir, emb_pc, image_files>>

(* image_files is exhausted: "Embedding extraction completed." *)
EmbFinish ==
    /\ emb_pc = "for"
    /\ emb_i > Len(image_files)
    /\ emb_pc' = "done"
    /\ UNCHANGED <<image_dir, image_files, emb_i, attempts, pt_files, warnings>>

EmbInit ==
    /\ image_dir \in {d \in SUBSET DirNames : Cardinality(d) <= MaxImages}
    /\ emb_pc = "start"
    /\ image_files = <<>>
    /\ emb_i = 1
    /\ attempts = <<>>
    /\ pt_files = {}
    /\ warnings = <<>>

EmbIdle ==
    /\ image_dir = {}
    /\ emb_pc = "idle"
    /\ image_files = <<>>
    /\ emb_i = 1
    /\ attempts = <<>>
    /\ pt_files = {}
    /\ warnings = <<>>

(* main of barrnap.py run again over the same OUTPUT_DIR, SAMPLE_IDS and     *)
(* input files: the local variables start afresh, the files stay             *)
Restart ==
    /\ run = 1
    /\ pc \in {"done", "aborted"}
    /\ run' = 2
    /\ first_run' = [summary |-> summary, files |-> files, trace |-> trace, pc |-> pc]
    /\ pc' = "start"
    /\ idx' = 1
    /\ length' = 0
    /\ rrna_fa' = <<>>
    /\ row_item' = <<>>
    /\ trace' = <<>>
    /\ UNCHANGED <<SAMPLE_IDS, input_files, summary, files, script>>

(* In the second run the summary file can be created iff it could be in the *)
(* first                                                                     *)
RerunStart ==
    /\ Start
    /\ run = 2 => ((pc' = "for") <=> (first_run.summary # <<>>))
    /\ UNCHANGED rerunVars

(* In the second run barrnap ends for each sample as it did in the first *)
RerunPredict ==
    /\ Predict
    /\ run = 2 =>
          /\ Len(trace') <= Len(first_run.trace)
          /\ trace'[Len(trace')] = first_run.trace[Len(trace')]
    /\ UNCHANGED rerunVars

(* extract_rrna_regions in either run: in the first bedtools ends in any way *)
(* and writes any records, in the second it ends as it did in the first and  *)
(* writes the same records                                                   *)
RerunExtract ==
    /\ pc = "EXTRACT"
    /\ \E r \in ToolResults :
          /\ run = 2 =>
                /\ Len(trace) < Len(first_run.trace)
                /\ first_run.trace[Len(trace) + 1] = Event(idx, "EXTRACT", r)
          /\ trace' = Append(trace, Event(idx, "EXTRACT", r))
          /\ CASE r = "ok" ->
                    /\ IF run = 1
                       THEN \E recs \in SeqsUpTo(Records, MaxRerunRecords) :
                               /\ rrna_fa' = recs
                               /\ script' = Append(script, recs)
                       ELSE /\ script # <<>>
                            /\ rrna_fa' = Head(script)
                            /\ script' = Tail(script)
                    /\ files' = files \cup {<<sample_id, "rrna.fasta">>}
                    /\ pc' = "SELECT"
                    /\ UNCHANGED length
               [] r = "nonzero" ->
                    /\ pc' = "WRITE"
                    /\ length' = 0
                    /\ UNCHANGED <<rrna_fa, files, script>>
               [] r = "nolaunch" ->
                    /\ pc' = "aborted"
                    /\ UNCHANGED <<length, rrna_fa, files, script>>
    /\ UNCHANGED <<SAMPLE_IDS, input_files, idx, summary, row_item, run, first_run>>

RerunInit ==
    /\ run = 1
    /\ first_run = [summary |-> <<>>, files |-> {}, trace |-> <<>>, pc |-> "start"]
    /\ script = <<>>

(* main of barrnap.py has not been run before *)
RerunIdle ==
    /\ run = 1
    /\ first_run = [summary |-> <<>>, files |-> {}, trace |-> <<>>, pc |-> "start"]
    /\ script = <<>>

----------------------------------------------------------------------------
(* Specifications *)

(* The sample pipeline, barrnap.py *)
Init == PipeInit /\ SelIdle /\ RepIdle /\ RerunIdle /\ EmbIdle
Next ==
    \/ Start /\ UNCHANGED <<selVars, repVars, rerunVars, embVars>>
    \/ Finish /\ UNCHANGED <<selVars, repVars, rerunVars, embVars>>
    \/ InputCheck /\ UNCHANGED <<selVars, repVars, rerunVars, embVars>>
    \/ Predict /\ UNCHANGED <<selVars, repVars, rerunVars, embVars>>
    \/ Extract /\ UNCHANGED <<selVars, repVars, rerunVars, embVars>>
    \/ Select /\ UNCHANGED <<selVars, repVars, rerunVars, embVars>>
    \/ WriteRow /\ UNCHANGED <<selVars, repVars, rerunVars, embVars>>
Spec == Init /\ [][Next]_vars

(* extract_longest_18s on its own *)
InitSel == PipeIdle /\ SelInit /\ RepIdle /\ RerunIdle /\ EmbIdle
NextSel == SelCall /\ UNCHANGED <<pipeVars, repVars, rerunVars, embVars>>
SpecSel == InitSel /\ [][NextSel]_vars

(* The replicate pipeline, fasttree_with_bootstraps.py *)
InitRep == PipeIdle /\ SelIdle /\ RepInit /\ RerunIdle /\ EmbIdle
NextRep ==
    \/ RepStart /\ UNCHANGED <<pipeVars, selVars, rerunVars, embVars>>
    \/ RepRead /\ UNCHANGED <<pipeVars, selVars, rerunVars, embVars>>
    \/ RepFinish /\ UNCHANGED <<pipeVars, selVars, rerunVars, embVars>>
    \/ RepGenerate /\ UNCHANGED <<pipeVars, selVars, rerunVars, embVars>>
    \/ RepPersist /\ UNCHANGED <<pipeVars, selVars, rerunVars, embVars>>
    \/ RepFastTree /\ UNCHANGED <<pipeVars, selVars, rerunVars, embVars>>
SpecRep == InitRep /\ [][NextRep]_vars

(* The replicate pipeline, or generate_bootstrap_alignment called repeatedly *)
(* on one loaded alignment                                                    *)
InitGen ==
    /\ RepInit \/ GenCallInit
    /\ PipeIdle /\ SelIdle /\ RerunIdle /\ EmbIdle
NextGen ==
    \/ NextRep
    \/ GenerateCall /\ UNCHANGED <<pipeVars, selVars, rerunVars, embVars>>
SpecGen == InitGen /\ [][NextGen]_vars

(* Either batch program: barrnap.py or fasttree_with_bootstraps.py *)
InitBatch ==
    /\ \/ PipeInit /\ RepIdle
       \/ PipeIdle /\ RepInit
    /\ SelIdle /\ RerunIdle /\ EmbIdle
NextBatch == Next \/ NextRep
SpecBatch == InitBatch /\ [][NextBatch]_vars

(* barrnap.py run twice *)
InitRerun ==
    /\ PipeInit /\ Len(SAMPLE_IDS) <= MaxRerunItems
    /\ SelIdle /\ RepIdle /\ RerunInit /\ EmbIdle
NextRerun ==
    \/ RerunStart /\ UNCHANGED <<selVars, repVars, embVars>>
    \/ Finish /\ UNCHANGED <<selVars, repVars, rerunVars, embVars>>
    \/ InputCheck /\ UNCHANGED <<selVars, repVars, rerunVars, embVars>>
    \/ RerunPredict /\ UNCHANGED <<selVars, repVars, embVars>>
    \/ RerunExtract /\ UNCHANGED <<selVars, repVars, embVars>>
    \/ Select /\ UNCHANGED <<selVars, repVars, rerunVars, embVars>>
    \/ WriteRow /\ UNCHANGED <<selVars, repVars, rerunVars, embVars>>
    \/ Restart /\ UNCHANGED <<selVars, repVars, embVars>>
SpecRerun == InitRerun /\ [][NextRerun]_vars

(* The embedding extraction, resnet50.py *)
InitEmb == PipeIdle /\ SelIdle /\ RepIdle /\ RerunIdle /\ EmbInit
NextEmb ==
    \/ EmbStart /\ UNCHANGED <<pipeVars, selVars, repVars, rerunVars>>
    \/ EmbGlob /\ UNCHANGED <<pipeVars, selVars, repVars, rerunVars>>
    \/ EmbExtract /\ UNCHANGED <<pipeVars, selVars, repVars, rerunVars>>
    \/ EmbFinish /\ UNCHANGED <<pipeVars, selVars, repVars, rerunVars>>
SpecEmb == InitEmb /\ [][NextEmb]_vars

----------------------------------------------------------------------------
(* Properties of the sample pipeline *)

LastEvent == trace[Len(trace)]
Skipped(k) == \E n \in 1..Len(trace) : trace[n] = Event(k, "INPUT_CHECK", "absent")
Failed(k) == \E n \in 1..Len(trace) : trace[n].item = k /\ trace[n].result = "nonzero"
HasRow(k, len) ==
    \E j \in 1..Len(row_item) :
        /\ row_item[j] = k
        /\ Len(summary) >= j + 1
        /\ summary[j + 1] = <<SAMPLE_IDS[k], len>>

(* The label test and the selector's result, stated without the loop *)
Has18S(d) == \E i \in 1..(Len(d) - 2) : d[i] = "1" /\ d[i + 1] = "8" /\ d[i + 2] = "S"
Matching(records) == {i \in 1..Len(records) : Has18S(records[i].description)}
MaxLen18S(records) ==
    LET lens == {Len(records[i].seq) : i \in Matching(records)}
    IN  IF lens = {} THEN 0 ELSE CHOOSE m \in lens : \A l \in lens : l <= m

(* C1: when main completes, the summary table holds exactly one data row per *)
(* configured WorkItem, in work-list order, and an item that was skipped for  *)
(* a missing input or that failed is present with length 0.                   *)
C1_OneRowPerWorkItem ==
    pc = "done" =>
        /\ Len(summary) = 1 + Len(SAMPLE_IDS)
        /\ \A k \in 1..Len(SAMPLE_IDS) :
              /\ summary[k + 1][1] = SAMPLE_IDS[k]
              /\ (Skipped(k) \/ Failed(k)) => summary[k + 1][2] = 0

(* C2: no failure of an external tool call of an item, the program not being *)
(* launchable included, aborts the loop: main leaves the loop only at its     *)
(* end, and the failed item then has the row (id, 0).                         *)
C2_BatchIsolation ==
    /\ pc = "aborted" => trace = <<>>
    /\ \A n \in 1..Len(trace) :
          (trace[n].result \in {"nonzero", "nolaunch"} /\ pc = "done")
              => HasRow(trace[n].item, 0)

(* C4: when the region predictor or the region extractor exits non-zero for  *)
(* an item whose input exists, the item's length is 0, the row (item, 0) is   *)
(* written, processing continues with the next WorkItem, and the row of the   *)
(* item processed last is the result of its own selection.                    *)
C4_ToolFailureRecorded ==
    /\ \A n \in 1..Len(trace) :
          trace[n].result = "nonzero" =>
              LET k == trace[n].item
              IN  /\ SAMPLE_IDS[k] \in input_files
                  /\ IF n = Len(trace) /\ pc = "WRITE"
                     THEN length = 0 /\ idx = k
                     ELSE /\ HasRow(k, 0)
                          /\ n < Len(trace) =>
                                /\ trace[n + 1].item = k + 1
                                /\ trace[n + 1].stage = "INPUT_CHECK"
                          /\ n = Len(trace) => pc \in {"for", "done"} /\ idx = k + 1
    /\ (trace # <<>> /\ LastEvent.stage = "SELECT" /\ pc \in {"for", "done"})
          => HasRow(LastEvent.item, MaxLen18S(rrna_fa))

(* Item 1 failed and has the row (id, 0); item 2 was then processed to the   *)
(* end and has a row with its own non-zero length.                            *)
C4_Witness ==
    /\ pc = "done"
    /\ Len(SAMPLE_IDS) = 2
    /\ Failed(1)
    /\ HasRow(1, 0)
    /\ LastEvent = Event(2, "SELECT", "found")
    /\ Len(summary) = 3
    /\ summary[3][2] > 0

Terminal(e) ==
    \/ e.stage = "INPUT_CHECK" /\ e.result = "absent"
    \/ e.stage \in {"PREDICT", "EXTRACT"} /\ e.result = "nonzero"
    \/ e.stage = "SELECT"

(* C6: per WorkItem the stages run in the order INPUT_CHECK, PREDICT,        *)
(* EXTRACT, SELECT, each at most once; no tool runs for an item whose input   *)
(* is absent, the extractor never runs after a failed predictor, the selector *)
(* never runs after a failed predictor or extractor, and no stage of the next *)
(* item starts before the current item is DONE (row written), SKIPPED or      *)
(* FAILED (row written).                                                      *)
C6_StageOrder ==
    /\ trace # <<>> => trace[1].item = 1 /\ trace[1].stage = "INPUT_CHECK"
    /\ \A n \in 1..(Len(trace) - 1) :
          LET a == trace[n]
              b == trace[n + 1]
          IN  \/ /\ b.item = a.item
                 /\ \/ a.stage = "INPUT_CHECK" /\ a.result = "present" /\ b.stage = "PREDICT"
                    \/ a.stage = "PREDICT" /\ a.result = "ok" /\ b.stage = "EXTRACT"
                    \/ a.stage = "EXTRACT" /\ a.result = "ok" /\ b.stage = "SELECT"
              \/ /\ b.item = a.item + 1
                 /\ b.stage = "INPUT_CHECK"
                 /\ Terminal(a)
                 /\ Skipped(a.item) \/ \E j \in 1..Len(row_item) : row_item[j] = a.item
    /\ \A m \in 1..Len(trace) : \A n \in (m + 1)..Len(trace) :
          trace[m].item # trace[n].item \/ trace[m].stage # trace[n].stage
    /\ \A n \in 1..Len(trace) :
          trace[n].stage \in {"PREDICT", "EXTRACT", "SELECT"}
              => SAMPLE_IDS[trace[n].item] \in input_files

(* Item 1 ran all four stages, then item 2 started and its extractor failed *)
C6_Witness ==
    /\ Len(trace) = 7
    /\ trace[4] = Event(1, "SELECT", "found")
    /\ trace[5] = Event(2, "INPUT_CHECK", "present")
    /\ trace[7] = Event(2, "EXTRACT", "nonzero")
    /\ pc = "done"

(* C8: extract_longest_18s returns the greatest sequence length among the    *)
(* records whose description contains "18S" (case-sensitive), 0 when there is *)
(* none, and the row of an item that reaches DONE carries that value.         *)
C8_SelectorResult ==
    (trace # <<>> /\ LastEvent.stage = "SELECT") =>
        /\ LastEvent.result = (IF Matching(rrna_fa) = {} THEN "none" ELSE "found")
        /\ pc = "WRITE" => length = MaxLen18S(rrna_fa)
        /\ pc \in {"for", "done"} =>
              /\ row_item[Len(row_item)] = LastEvent.item
              /\ summary[Len(summary)] = <<SAMPLE_IDS[LastEvent.item], MaxLen18S(rrna_fa)>>

(* A longer record labelled "18s" did not influence the row of a DONE item *)
C8_Witness ==
    /\ pc = "done"
    /\ trace # <<>>
    /\ LastEvent.stage = "SELECT"
    /\ Len(rrna_fa) = 2
    /\ \E i, j \in 1..2 :
          /\ rrna_fa[i].description = <<"1", "8", "s">>
          /\ rrna_fa[j].description = <<"r", "1", "8", "S">>
          /\ Len(rrna_fa[i].seq) > Len(rrna_fa[j].seq)
          /\ summary[Len(summary)][2] = Len(rrna_fa[j].seq)
          /\ Len(rrna_fa[j].seq) > 0

(* C9: the summary file is empty until it is opened; from then on it is the  *)
(* header row, written once, followed by data rows only, one per item that    *)
(* wrote one, in work-list order.                                             *)
C9_SummaryOrder ==
    /\ summary = <<>> => pc \in {"start", "aborted"} /\ row_item = <<>>
    /\ summary # <<>> =>
          /\ summary[1] = HeaderRow
          /\ Len(summary) = Len(row_item) + 1
          /\ \A j \in 1..Len(row_item) :
                /\ row_item[j] \in 1..Len(SAMPLE_IDS)
                /\ summary[j + 1][1] = SAMPLE_IDS[row_item[j]]
                /\ summary[j + 1][1] \in IDs
    /\ \A i, j \in 1..Len(row_item) : i < j => row_item[i] < row_item[j]

(* Two data rows follow the header, written by items 1 and 2 in this order *)
C9_Witness ==
    /\ pc = "done"
    /\ Len(summary) = 3
    /\ row_item = <<1, 2>>
    /\ summary[2][1] # summary[3][1]

----------------------------------------------------------------------------
(* Properties of extract_longest_18s *)

(* C7: among the records labelled "18S" the selected one has the greatest    *)
(* length, and of several with that length (0 included) it is the first in    *)
(* parse order.                                                               *)
C7_TieBreakFirst ==
    sel_pc = "returned" =>
        IF Matching(sel_in) = {}
        THEN sel_best = 0
        ELSE /\ sel_best \in Matching(sel_in)
             /\ \A i \in Matching(sel_in) :
                   /\ Len(sel_in[i].seq) <= Len(sel_in[sel_best].seq)
                   /\ Len(sel_in[i].seq) = Len(sel_in[sel_best].seq) => sel_best <= i

(* Three labelled records of the greatest length 0: the first one is chosen *)
C7_Witness ==
    /\ sel_pc = "returned"
    /\ Len(sel_in) = 3
    /\ Matching(sel_in) = {1, 2, 3}
    /\ \A i \in 1..3 : sel_in[i].seq = <<>>
    /\ sel_best = 1

----------------------------------------------------------------------------
(* Properties of the replicate pipeline *)

LastRep == rep_trace[Len(rep_trace)]

(* C3: for a source alignment of R >= 1 rows and C >= 1 columns and any      *)
(* index draw, generate_bootstrap_alignment returns R rows of length C with   *)
(* the source's identifiers in the source's order.                            *)
C3_DimensionInvariant ==
    (/\ rep_trace # <<>>
     /\ LastRep.op = "generate"
     /\ Len(alignment) >= 1
     /\ get_alignment_length(alignment) >= 1)
        => /\ LastRep.result = "ok"
           /\ Len(bs_align) = Len(alignment)
           /\ \A k \in 1..Len(alignment) :
                 /\ Len(bs_align[k].seq) = get_alignment_length(alignment)
                 /\ bs_align[k].id = alignment[k].id

(* C5: the replicate's residue at row r, position p is the source's residue  *)
(* at row r, column indices[p]; for A = ACGT, B = TGCA and the draw           *)
(* [3,0,0,2] the rows are TAAC and ACAG.                                      *)
C5_ColumnSharing ==
    (rep_trace # <<>> /\ LastRep.op = "generate") =>
        /\ LastRep.result = "ok"
        /\ \A r \in 1..Len(alignment) :
              /\ r <= Len(bs_align)
              /\ Len(bs_align[r].seq) = Len(indices)
              /\ \A p \in 1..Len(indices) :
                    bs_align[r].seq[p] = alignment[r].seq[indices[p] + 1]
        /\ (alignment = ExampleAlignment /\ indices = ExampleDraw) =>
              /\ bs_align[1].seq = <<"T", "A", "A", "C">>
              /\ bs_align[2].seq = <<"A", "C", "A", "G">>

(* C10: once the source alignment is loaded and FastTree can be started,     *)
(* whatever its exit status, main never leaves the loop early, the steps of   *)
(* index i are generate, persist, FastTree in this order, and at the end      *)
(* every index 1..N has had all three.                                        *)
C10_ReplicateIsolation ==
    (/\ alignment # <<>>
     /\ \A n \in 1..Len(rep_trace) : rep_trace[n].result # "nolaunch")
        => /\ rep_pc # "aborted"
           /\ \A n \in 1..Len(rep_trace) :
                 /\ rep_trace[n].i = ((n - 1) \div 3) + 1
                 /\ rep_trace[n].op =
                       (CASE (n - 1) % 3 = 0 -> "generate"
                          [] (n - 1) % 3 = 1 -> "persist"
                          [] (n - 1) % 3 = 2 -> "fasttree")
           /\ rep_pc = "done" => Len(rep_trace) = 3 * NUM_REPLICATES

(* C11: generate_bootstrap_alignment leaves the source alignment as it was   *)
(* loaded: after every call, in main and in any number of calls made one      *)
(* after the other on the same alignment, whether they return or raise, it    *)
(* has the rows, identifiers, order and residues of the input file.           *)
C11_SourceImmutable ==
    /\ alignment # <<>> => (INPUT_FASTA.exists /\ alignment = INPUT_FASTA.records)
    /\ \A n \in 1..Len(rep_trace) :
          rep_trace[n].op = "generate" => alignment = INPUT_FASTA.records

(* Two calls on the same two-row alignment, the second with the columns      *)
(* drawn in an order that differs from the source's: the source is as loaded  *)
C11_Witness ==
    /\ rep_pc = "generate_bootstrap_alignment"
    /\ Len(rep_trace) = 2
    /\ rep_trace[1].op = "generate"
    /\ LastRep.op = "generate"
    /\ LastRep.i = 2
    /\ Len(alignment) = 2
    /\ alignment[1].seq = <<"A", "C">>
    /\ alignment[2].seq = <<"C", "A">>
    /\ indices = <<1, 0>>
    /\ alignment = INPUT_FASTA.records

(* Two calls on a zero-column alignment of two rows have both returned a     *)
(* new alignment, and the source still has its two rows                       *)
C11_WitnessReturned ==
    /\ rep_pc = "generate_bootstrap_alignment"
    /\ Len(rep_trace) = 2
    /\ rep_trace[1] = RepEvent(1, "generate", "ok")
    /\ rep_trace[2] = RepEvent(2, "generate", "ok")
    /\ Len(alignment) = 2
    /\ Len(bs_align) = 4
    /\ alignment = INPUT_FASTA.records

(* C15: a generate call draws exactly C indices for an alignment of C        *)
(* columns (none for C = 0), each between 0 and C - 1, so every lookup        *)
(* rec.seq[i] is inside its row.                                              *)
C15_DrawBounds ==
    \A n \in 1..Len(rep_trace) :
        rep_trace[n].op = "generate" =>
            /\ Len(indices) = get_alignment_length(alignment)
            /\ \A p \in 1..Len(indices) :
                  /\ indices[p] >= 0
                  /\ indices[p] <= get_alignment_length(alignment) - 1
                  /\ \A k \in 1..Len(alignment) : indices[p] + 1 \in 1..Len(alignment[k].seq)

(* Both ends of the range are drawn in one call: 0 and C - 1 for C = 2 *)
C15_Witness ==
    /\ rep_trace # <<>>
    /\ LastRep.op = "generate"
    /\ get_alignment_length(alignment) = 2
    /\ indices = <<0, 1>>

(* No index is drawn for an alignment without columns, and the call returns *)
C15_WitnessNoColumns ==
    /\ rep_trace # <<>>
    /\ LastRep = RepEvent(1, "generate", "ok")
    /\ Len(alignment) = 2
    /\ get_alignment_length(alignment) = 0
    /\ indices = <<>>

(* C14: a call of extract_longest_18s on records none of which is labelled   *)
(* "18S" selects no record, leaves the output file as it was (absent or with  *)
(* its earlier content) and returns 0; a call on records of which at least    *)
(* one is labelled writes the output file, which then holds exactly the       *)
(* selected record.                                                           *)
C14_EmptyCase ==
    [][ sel_pc = "call" =>
          /\ sel_pc' = "returned"
          /\ Matching(sel_in) = {} =>
                /\ sel_best' = 0
                /\ sel_ret' = 0
                /\ sel_out' = sel_out
          /\ Matching(sel_in) # {} =>
                /\ sel_best' \in Matching(sel_in)
                /\ sel_out' = FileOf(<<sel_in[sel_best']>>)
      ]_vars

(* Two unlabelled records were parsed: nothing selected, 0 returned, and the *)
(* earlier output file is still there                                        *)
C14_Witness ==
    /\ sel_pc = "returned"
    /\ Len(sel_in) = 2
    /\ Matching(sel_in) = {}
    /\ Len(sel_in[1].seq) > 0
    /\ sel_best = 0
    /\ sel_ret = 0
    /\ sel_out = FileOf(<<StaleRecord>>)

----------------------------------------------------------------------------
(* Properties of the embedding extraction *)

AttemptsWith(ok) ==
    SelectSeq(attempts, LAMBDA a : (a.outcome = "ok") = ok)

(* C16: once the model is loaded and a .jpg is found, the images are         *)
(* attempted once each in sorted order; an error of one image is logged, and  *)
(* main never leaves the loop because of it; {stem}.pt is written exactly     *)
(* for the images processed without error.                                    *)
C16_EmbeddingIsolation ==
    /\ emb_pc = "aborted" => attempts = <<>> /\ image_files = <<>>
    /\ emb_pc \in {"for", "done"} =>
          /\ image_files # <<>>
          /\ {image_files[n] : n \in 1..Len(image_files)} = glob_jpg(image_dir)
          /\ \A m \in 1..Len(image_files) : \A n \in (m + 1)..Len(image_files) :
                path_lt(image_files[m], image_files[n])
    /\ Len(attempts) = emb_i - 1
    /\ Len(attempts) <= Len(image_files)
    /\ \A n \in 1..Len(attempts) : attempts[n].img = image_files[n]
    /\ emb_pc = "done" => Len(attempts) = Len(image_files)
    /\ pt_files = {stem(attempts[n].img) : n \in {k \in 1..Len(attempts) : attempts[k].outcome = "ok"}}
    /\ Len(warnings) = Len(AttemptsWith(FALSE))
    /\ \A n \in 1..Len(warnings) : warnings[n] = AttemptsWith(FALSE)[n].img

----------------------------------------------------------------------------
(* Properties of the start of the batch programs *)

SourceUnusable == ~INPUT_FASTA.exists \/ read_raises(INPUT_FASTA.records)

(* C12: with the source alignment absent or unreadable a run of main of the  *)
(* replicate batch ends before the loop: nothing is generated, persisted or  *)
(* given to FastTree; while the summary file of the sample pipeline has not  *)
(* been created no sample is attempted and no tool is run.                   *)
C12_ConfigurationFatal ==
    /\ (SourceUnusable /\ rep_pc \notin CallPcs) =>
          /\ rep_pc \in {"idle", "start", "check", "returned", "aborted"}
          /\ rep_trace = <<>>
          /\ rep_files = {}
          /\ bs_align = <<>>
          /\ alignment = <<>>
    /\ summary = <<>> =>
          /\ pc \in {"idle", "start", "aborted"}
          /\ trace = <<>>
          /\ files = {}
          /\ row_item = <<>>
          /\ idx = 1

(* A source file that exists with rows of different lengths: AlignIO.read    *)
(* raised and main ended with replicates requested and none made             *)
C12_Witness ==
    /\ rep_pc = "aborted"
    /\ INPUT_FASTA.exists
    /\ Len(INPUT_FASTA.records) > 0
    /\ read_raises(INPUT_FASTA.records)
    /\ NUM_REPLICATES > 0
    /\ rep_trace = <<>>
    /\ rep_files = {}

(* The summary file could not be created with samples and inputs present *)
C12_WitnessSummary ==
    /\ pc = "aborted"
    /\ summary = <<>>
    /\ Len(SAMPLE_IDS) > 0
    /\ input_files # {}
    /\ trace = <<>>

----------------------------------------------------------------------------
(* Properties of a second run of the sample pipeline *)

IsPrefix(a, b) ==
    /\ Len(a) <= Len(b)
    /\ \A n \in 1..Len(a) : a[n] = b[n]

(* C13: a second run over the same samples, inputs and tool outcomes writes  *)
(* the same artifact names and rebuilds the summary from an empty file: at   *)
(* every moment after the file is opened it holds the header and the rows of  *)
(* this run only, and at the end it equals the summary of the first run.      *)
C13_IdempotentRerun ==
    run = 2 =>
       /\ IsPrefix(summary, first_run.summary)
       /\ IsPrefix(trace, first_run.trace)
       /\ (pc # "start" /\ first_run.summary # <<>>) => Len(summary) = 1 + Len(row_item)
       /\ files = first_run.files
       /\ pc \in {"done", "aborted"} =>
             /\ pc = first_run.pc
             /\ Len(summary) = Len(first_run.summary)
             /\ Len(trace) = Len(first_run.trace)

(* Both runs completed with a data row for a sample whose 18S record was     *)
(* found: the summary holds the header and that row once                      *)
C13_Witness ==
    /\ run = 2
    /\ pc = "done"
    /\ Len(first_run.summary) = 2
    /\ Len(summary) = 2
    /\ summary[2][2] > 0
    /\ <<SAMPLE_IDS[1], "18S.fasta">> \in files
    /\ script = <<>>

====
